---- MODULE Spec2Model ----
(***************************************************************************)
(* Model of the JumpStart builder's tuning driver                          *)
(* (sagemaker/serve/builder/jumpstart_builder.py):                         *)
(* tune_for_djl_jumpstart and tune_for_tgi_jumpstart sweep the admissible  *)
(* tensor parallel degrees, deploy and benchmark each one, keep the most   *)
(* performant and fall back to the initial environment when none worked.   *)
(***************************************************************************)
EXTENDS Integers, Sequences, FiniteSets, TLC

(* ------------------------------ bounds --------------------------------- *)

\* longest candidate sequence the candidate generator returns
MaxCandidates == 2

\* last clock reading; the clock stops advancing there
MaxClock == 3

(* ------------------------------ inputs --------------------------------- *)

LOCAL_CONTAINER == "LOCAL_CONTAINER"

SAGEMAKER_ENDPOINT == "SAGEMAKER_ENDPOINT"

Modes == {LOCAL_CONTAINER, SAGEMAKER_ENDPOINT}

Tuners == {"djl", "tgi"}

\* tensor parallel degrees a candidate sequence is made of
Degrees == {1, 2, 16}

\* max_tuning_duration arguments, in clock units
Durations == {0, 1}

\* clock reading a tuning call starts at (only differences of readings matter)
StartClocks == {1}

Latencies == {30, 50}

P90s == {60}

TokensPerSecond == {7}

\* <<throughput_per_second, standard_deviation>> of a concurrent benchmark
ConcurrentResults == {<<3, 2>>, <<5, 1>>, <<5, 2>>}

\* the except clauses of the try statement, in source order
FailureKinds ==
    {"LocalDeepPingException", "LocalModelOutOfMemoryException",
     "LocalModelInvocationException", "LocalModelLoadException",
     "SkipTuningComboException", "Exception"}

\* the calls of the try body that can raise
Stages == {"deploy", "serial", "concurrent", "compare"}

\* environment maps the model can have before the tuning call
InitialEnvs ==
    { [k \in {"HF_MODEL_ID"} |-> "m"],
      [k \in {"OPTION_TENSOR_PARALLEL_DEGREE", "SM_NUM_GPUS"} |-> "1"],
      [k \in {"HF_MODEL_ID", "OPTION_TENSOR_PARALLEL_DEGREE", "SM_NUM_GPUS"} |->
          IF k = "HF_MODEL_ID" THEN "m" ELSE "8"] }

\* the sequences without repetition over Degrees, up to MaxCandidates long
CandidateSeqs ==
    UNION { { s \in [1..n -> Degrees] : \A i, j \in 1..n : i /= j => s[i] /= s[j] }
            : n \in 0..MaxCandidates }

(* ------------------------- pure helpers -------------------------------- *)

Digits == <<"0", "1", "2", "3", "4", "5", "6", "7", "8", "9">>

\* Python's str() of a non-negative int
RECURSIVE Str(_)
Str(n) == IF n < 10 THEN Digits[n + 1] ELSE Str(n \div 10) \o Digits[(n % 10) + 1]

\* mutant: the map is replaced by the update instead of merged with it
DictUpdateReplaces(d, e) == e

\* dict.update: the keys of e are added to d or overwritten in d
DictUpdate(d, e) ==
    [k \in (DOMAIN d) \cup (DOMAIN e) |-> IF k \in DOMAIN e THEN e[k] ELSE d[k]]

\* mutant: the TGI tuner writes the DJL key
TunedKeyAlwaysDjl(tuner) == "OPTION_TENSOR_PARALLEL_DEGREE"

\* the environment variable a tuner sweeps
TunedKey(tuner) ==
    IF tuner = "djl" THEN "OPTION_TENSOR_PARALLEL_DEGREE" ELSE "SM_NUM_GPUS"

\* self.pysdk_model.env.update({KEY: str(degree)})
SetTunedKey(e, tuner, degree) ==
    DictUpdate(e, [k \in {TunedKey(tuner)} |-> Str(degree)])

\* mutant: the deadline is one clock unit late
ComputeTimeoutLate(clock, duration) == clock + duration + 1

\* timeout = datetime.now() + timedelta(seconds=max_tuning_duration)
ComputeTimeout(clock, duration) == clock + duration

\* mutant: the deadline check is missing
DeadlineNeverPassed(clock, deadline) == FALSE

\* if datetime.now() > timeout
DeadlinePassed(clock, deadline) == clock > deadline

\* mutant: the mode guard is inverted
TuningUnsupportedInverted(m) == m = LOCAL_CONTAINER

\* if self.mode != Mode.LOCAL_CONTAINER: return self.pysdk_model
TuningUnsupported(m) == m /= LOCAL_CONTAINER

\* mutant: the skip-combination clause moves on to the next candidate
ExceptHandlerSkipContinues(kind) ==
    IF kind = "SkipTuningComboException" THEN "continue" ELSE "break"

\* mutant: the out-of-memory clause moves on to the next candidate
ExceptHandlerOomContinues(kind) ==
    IF kind = "LocalModelOutOfMemoryException" THEN "continue" ELSE "break"

\* mutant: the catch-all clause is missing
ExceptHandlerNoCatchAll(kind) ==
    IF kind = "Exception" THEN "raise" ELSE "break"

\* what the except clause that catches `kind` does to the loop
ExceptHandler(kind) ==
    CASE kind = "LocalDeepPingException" -> "break"
      [] kind = "LocalModelOutOfMemoryException" -> "break"
      [] kind = "LocalModelInvocationException" -> "break"
      [] kind = "LocalModelLoadException" -> "break"
      [] kind = "SkipTuningComboException" -> "break"
      [] OTHER -> "break"

\* [avg_latency, degree, None, p90, avg_tokens_per_second,
\*  throughput_per_second, standard_deviation]
Combination(lat, degree, p, tok, thr, sd) == <<lat, degree, "None", p, tok, thr, sd>>

\* _more_performant(best_tuned_configuration, tuned_configuration):
\* lower latency wins, then higher throughput, then lower deviation
MorePerformant(best, tuned) ==
    \/ tuned[1] < best[1]
    \/ tuned[1] = best[1] /\ tuned[6] > best[6]
    \/ tuned[1] = best[1] /\ tuned[6] = best[6] /\ tuned[7] < best[7]

\* mutant: the arguments of the comparator are swapped
SelectBestSwapped(best, tuned) ==
    IF best = <<>> THEN tuned
    ELSE IF MorePerformant(tuned, best) THEN tuned ELSE best

\* mutant: the newest result always replaces the best-so-far record
SelectBestAlwaysNewest(best, tuned) == tuned

\* mutant: the first result is never replaced
SelectBestKeepsFirst(best, tuned) == IF best = <<>> THEN tuned ELSE best

\* the best-so-far record after a successful candidate; <<>> is None
SelectBest(best, tuned) ==
    IF best = <<>> THEN tuned
    ELSE IF MorePerformant(best, tuned) THEN tuned ELSE best

\* benchmark_results[avg_latency] = [tested_env, p90, tokens, throughput, deviation]
RecordResult(results, lat, tested_env, p, tok, thr, sd) ==
    DictUpdate(results, [k \in {lat} |-> <<tested_env, p, tok, thr, sd>>])

\* mutant: the best candidate is not written back after the loop
FinalEnvKeepsLast(e, tuner, best, snapshot) ==
    IF best /= <<>> THEN e
    ELSE DictUpdate(e, snapshot)

\* the environment after the loop: best applied, or the snapshot written back
FinalEnv(e, tuner, best, snapshot) ==
    IF best /= <<>> THEN SetTunedKey(e, tuner, best[2])
    ELSE DictUpdate(e, snapshot)

(* ------------------------------ state ---------------------------------- *)

VARIABLES
    mode,                               \* self.mode
    env,                                \* self.pysdk_model.env
    pc,                                 \* position in the tuning call
    tuner,                              \* which tune function is running
    max_tuning_duration,                \* the argument of the call
    initial_model_configuration,        \* <<>> or <<snapshot>>
    admissible_tensor_parallel_degrees, \* the candidate sequence
    idx,                                \* position of the for loop
    benchmark_results,                  \* avg_latency -> result entry
    best_tuned_combination,             \* <<>> (None) or a combination
    timeout,                            \* the deadline
    now,                                \* the wall clock
    measured,                           \* results of the benchmarks so far
    returned,                           \* <<>> or <<env of the returned model>>
    reported,                           \* <<>> or <<table that was printed>>
    raised,                             \* <<>> or <<kind that left the call>>
    \* history of the call, not read by the program
    env0,                               \* env when the call started
    startClock,                         \* clock reading the deadline was computed from
    firstCheck,                         \* <<>> or <<clock reading of the first deadline check>>
    attempted,                          \* degrees whose deploy was invoked
    succeeded,                          \* combinations of the completed attempts
    failed,                             \* <<[degree, stage, kind]>> of the failed attempt
    twin,                               \* the same failure step raising another kind
    overrun,                            \* degrees whose attempt completed after the deadline
    \* the PyTorch estimator (sagemaker/pytorch/estimator.py)
    est_pc,                             \* "new", "constructed" or "failed"
    training_recipe,                    \* the training_recipe argument
    arg_distribution,                   \* <<>> (None) or <<distribution argument>>
    caller_distribution,                \* the caller's dict after the call
    self_distribution,                  \* <<>> (unassigned) or <<self.distribution>>
    instance_type,                      \* self.instance_type
    est_error,                          \* <<>> or <<exception the constructor raised>>
    hyperparams,                        \* <<>> or <<result of hyperparameters()>>
    \* the two tune functions run side by side on the same inputs
    runs,                               \* <<>> or tuner -> state of its call
    pair_now,                           \* the wall clock both calls read
    \* the builder around the model (build and the deploy wrapper)
    build_pc,                           \* "new", "built" or "failed"
    build_error,                        \* <<>> or <<exception _build_for_jumpstart raised>>
    packaged_image_uri,                 \* image URI the model id is packaged with
    image_uri,                          \* self.image_uri
    model_server,                       \* self.model_server
    pysdk_model,                        \* self.pysdk_model: "None" or "JumpStartModel"
    pysdk_mode,                         \* self.pysdk_model.mode
    tune,                               \* self.pysdk_model.tune
    secret_key,                         \* self.secret_key
    prepared_for_djl,                   \* <<>> (no attribute) or <<value>>
    prepared_for_tgi,                   \* <<>> (no attribute) or <<value>>
    nb_instance_type,                   \* self.nb_instance_type
    last_deploy                         \* <<>> or <<record of the last deploy call>>

tuneVars ==
    <<mode, env, pc, tuner, max_tuning_duration, initial_model_configuration,
      admissible_tensor_parallel_degrees, idx, benchmark_results,
      best_tuned_combination, timeout, now, measured, returned, reported, raised,
      env0, startClock, firstCheck, attempted, succeeded, failed, twin, overrun>>

progVars ==
    <<mode, env, tuner, max_tuning_duration, initial_model_configuration,
      admissible_tensor_parallel_degrees, idx, benchmark_results,
      best_tuned_combination, timeout, measured, returned, reported, raised>>

histVars ==
    <<env0, startClock, firstCheck, attempted, succeeded, failed, twin, overrun>>

estVars ==
    <<est_pc, training_recipe, arg_distribution, caller_distribution,
      self_distribution, instance_type, est_error, hyperparams>>

pairVars == <<runs, pair_now>>

builderVars ==
    <<build_pc, build_error, packaged_image_uri, image_uri, model_server, pysdk_model, pysdk_mode,
      tune, secret_key, prepared_for_djl, prepared_for_tgi, nb_instance_type,
      last_deploy>>

\* what the tuning call and the estimator leave alone
sideVars == <<pairVars, builderVars>>

vars == <<tuneVars, estVars, sideVars>>

\* no estimator has been constructed
EstimatorInit ==
    /\ est_pc = "new"
    /\ training_recipe = "None"
    /\ arg_distribution = <<>>
    /\ caller_distribution = <<>>
    /\ self_distribution = <<>>
    /\ instance_type = "None"
    /\ est_error = <<>>
    /\ hyperparams = <<>>

\* no pair of tune calls is under way
PairInit ==
    /\ runs = <<>>
    /\ pair_now = 0

\* JumpStart.__init__: nothing built, both preparation attributes set to None
BuilderInit ==
    /\ build_pc = "new"
    /\ build_error = <<>>
    /\ packaged_image_uri = "ecr/djl-inference:0.21.0-deepspeed0.8.3-cu117"
    /\ image_uri = "None"
    /\ model_server = "None"
    /\ pysdk_model = "None"
    /\ pysdk_mode = "None"
    /\ tune = "None"
    /\ secret_key = "None"
    /\ prepared_for_djl = <<"None">>
    /\ prepared_for_tgi = <<"None">>
    /\ nb_instance_type = "None"
    /\ last_deploy = <<>>

SideInit == PairInit /\ BuilderInit

\* the builder's mode and the model's environment before a tuning call
TuneInit ==
    /\ mode \in Modes
    /\ env \in InitialEnvs
    /\ pc = "idle"
    /\ tuner = "none"
    /\ max_tuning_duration = 0
    /\ initial_model_configuration = <<>>
    /\ admissible_tensor_parallel_degrees = <<>>
    /\ idx = 0
    /\ benchmark_results = <<>>
    /\ best_tuned_combination = <<>>
    /\ timeout = 0
    /\ now \in StartClocks
    /\ measured = <<>>
    /\ returned = <<>>
    /\ reported = <<>>
    /\ raised = <<>>
    /\ env0 = env
    /\ startClock = now
    /\ firstCheck = <<>>
    /\ attempted = <<>>
    /\ succeeded = <<>>
    /\ failed = <<>>
    /\ twin = <<>>
    /\ overrun = <<>>

Init == EstimatorInit /\ SideInit /\ TuneInit

(* --------------------------- the tuning call --------------------------- *)

\* mutant: the loop walks the candidate sequence from its end
CandidateReversed ==
    admissible_tensor_parallel_degrees[
        Len(admissible_tensor_parallel_degrees) - idx + 1]

\* the candidate the for loop is at
Candidate == admissible_tensor_parallel_degrees[idx]

\* lines 266-270 / 423-427: outside LOCAL_CONTAINER the model is returned at once
TuneUnsupportedWith(Durs) ==
    /\ pc = "idle"
    /\ TuningUnsupported(mode)
    /\ \E t \in Tuners, d \in Durs :
        /\ tuner' = t
        /\ max_tuning_duration' = d
    /\ returned' = <<env>>
    /\ pc' = "done"
    /\ UNCHANGED <<mode, env, initial_model_configuration,
                   admissible_tensor_parallel_degrees, idx, benchmark_results,
                   best_tuned_combination, timeout, now, measured, reported, raised>>
    /\ UNCHANGED histVars
    /\ UNCHANGED <<estVars, sideVars>>

\* lines 272-281 / 429-439: snapshot, candidates, empty table, no best, deadline
TuneStartWith(Seqs, Durs) ==
    /\ pc = "idle"
    /\ ~TuningUnsupported(mode)
    /\ \E t \in Tuners, d \in Durs, s \in Seqs :
        /\ tuner' = t
        /\ max_tuning_duration' = d
        /\ admissible_tensor_parallel_degrees' = s
        /\ timeout' = ComputeTimeout(now, d)
    /\ initial_model_configuration' = <<env>>
    /\ benchmark_results' = <<>>
    /\ best_tuned_combination' = <<>>
    /\ startClock' = now
    /\ idx' = 1
    /\ pc' = "loop"
    /\ UNCHANGED <<mode, env, now, measured, returned, reported, raised,
                   env0, firstCheck, attempted, succeeded, failed, twin, overrun>>
    /\ UNCHANGED <<estVars, sideVars>>

\* the wall clock advances while the call is at the loop head or inside an
\* external call (deploy, serial benchmark, concurrent benchmark)
Tick ==
    /\ pc \in {"loop", "deploy", "serial", "concurrent"}
    /\ now < MaxClock
    /\ now' = now + 1
    /\ UNCHANGED <<pc, progVars, histVars>>
    /\ UNCHANGED <<estVars, sideVars>>

\* the for loop has no candidate left
LoopExhausted ==
    /\ pc = "loop"
    /\ idx > Len(admissible_tensor_parallel_degrees)
    /\ pc' = "finish"
    /\ UNCHANGED <<now, progVars, histVars>>
    /\ UNCHANGED <<estVars, sideVars>>

\* lines 284-286 / 442-444: the deadline has passed, break
LoopDeadline ==
    /\ pc = "loop"
    /\ idx <= Len(admissible_tensor_parallel_degrees)
    /\ DeadlinePassed(now, timeout)
    /\ firstCheck' = IF firstCheck = <<>> THEN <<now>> ELSE firstCheck
    /\ pc' = "finish"
    /\ UNCHANGED <<now, progVars, env0, startClock, attempted, succeeded, failed,
                   twin, overrun>>
    /\ UNCHANGED <<estVars, sideVars>>

\* lines 284-293 / 442-452: the deadline has not passed, the tuned key is set
\* and deploy is called
LoopBegin ==
    /\ pc = "loop"
    /\ idx <= Len(admissible_tensor_parallel_degrees)
    /\ ~DeadlinePassed(now, timeout)
    /\ firstCheck' = IF firstCheck = <<>> THEN <<now>> ELSE firstCheck
    /\ env' = SetTunedKey(env, tuner, Candidate)
    /\ attempted' = Append(attempted, Candidate)
    /\ measured' = <<>>
    /\ pc' = "deploy"
    /\ UNCHANGED <<mode, tuner, max_tuning_duration, initial_model_configuration,
                   admissible_tensor_parallel_degrees, idx, benchmark_results,
                   best_tuned_combination, timeout, now, returned, reported, raised,
                   env0, startClock, succeeded, failed, twin, overrun>>
    /\ UNCHANGED <<estVars, sideVars>>

\* lines 293-295 / 452-454: deploy returned a predictor
DeployOk ==
    /\ pc = "deploy"
    /\ pc' = "serial"
    /\ UNCHANGED <<now, progVars, histVars>>
    /\ UNCHANGED <<estVars, sideVars>>

\* lines 297-299 / 456-458: _serial_benchmark returned
SerialBenchmarkWith(Lats) ==
    /\ pc = "serial"
    /\ \E lat \in Lats, p \in P90s, tok \in TokensPerSecond :
        measured' = <<lat, p, tok>>
    /\ pc' = "concurrent"
    /\ UNCHANGED <<mode, env, tuner, max_tuning_duration, initial_model_configuration,
                   admissible_tensor_parallel_degrees, idx, benchmark_results,
                   best_tuned_combination, timeout, now, returned, reported, raised>>
    /\ UNCHANGED histVars
    /\ UNCHANGED <<estVars, sideVars>>

\* lines 300-317 / 459-476: _concurrent_benchmark returned and the result is
\* stored in the table under its average latency
ConcurrentBenchmark ==
    /\ pc = "concurrent"
    /\ \E r \in ConcurrentResults :
        /\ measured' = measured \o r
        /\ benchmark_results' =
              RecordResult(benchmark_results, measured[1], env,
                           measured[2], measured[3], r[1], r[2])
    /\ pc' = "compare"
    /\ UNCHANGED <<mode, env, tuner, max_tuning_duration, initial_model_configuration,
                   admissible_tensor_parallel_degrees, idx,
                   best_tuned_combination, timeout, now, returned, reported, raised>>
    /\ UNCHANGED histVars
    /\ UNCHANGED <<estVars, sideVars>>

\* the combination built from the candidate and its measurements
Tuned ==
    Combination(measured[1], Candidate, measured[2], measured[3],
                measured[4], measured[5])

\* mutant: a result that arrives after the deadline is dropped and the loop stops
CompareOkPreempted ==
    /\ pc = "compare"
    /\ best_tuned_combination' =
          IF DeadlinePassed(now, timeout) THEN best_tuned_combination
          ELSE SelectBest(best_tuned_combination, Tuned)
    /\ succeeded' = IF DeadlinePassed(now, timeout) THEN succeeded
                    ELSE Append(succeeded, Tuned)
    /\ idx' = idx + 1
    /\ pc' = IF DeadlinePassed(now, timeout) THEN "finish" ELSE "loop"
    /\ UNCHANGED <<mode, env, tuner, max_tuning_duration, initial_model_configuration,
                   admissible_tensor_parallel_degrees, benchmark_results,
                   timeout, now, measured, returned, reported, raised,
                   env0, startClock, firstCheck, attempted, failed, twin, overrun>>
    /\ UNCHANGED <<estVars, sideVars>>

\* lines 319-340 / 478-499: the best-so-far record is set or compared, and the
\* loop moves to the next candidate
CompareOk ==
    /\ pc = "compare"
    /\ best_tuned_combination' = SelectBest(best_tuned_combination, Tuned)
    /\ succeeded' = Append(succeeded, Tuned)
    /\ overrun' = IF DeadlinePassed(now, timeout) THEN Append(overrun, Candidate)
                  ELSE overrun
    /\ idx' = idx + 1
    /\ pc' = "loop"
    /\ UNCHANGED <<mode, env, tuner, max_tuning_duration, initial_model_configuration,
                   admissible_tensor_parallel_degrees, benchmark_results,
                   timeout, now, measured, returned, reported, raised,
                   env0, startClock, firstCheck, attempted, failed, twin>>
    /\ UNCHANGED <<estVars, sideVars>>

\* where the loop is after the except clause for `kind` ran at candidate i
AfterPc(kind) ==
    CASE ExceptHandler(kind) = "break" -> "finish"
      [] ExceptHandler(kind) = "continue" -> "loop"
      [] OTHER -> "raised"

AfterIdx(kind, i) == IF ExceptHandler(kind) = "continue" THEN i + 1 ELSE i

AfterRaised(kind) ==
    IF ExceptHandler(kind) \in {"break", "continue"} THEN <<>> ELSE <<kind>>

\* lines 341-390 / 500-550: a call of the try body raised `kind`; the twin is
\* the same step had the call raised `other` instead
Raise(stage, kind, other) ==
    /\ pc = stage
    /\ stage = "compare" => best_tuned_combination /= <<>>
    /\ failed' = Append(failed, [degree |-> Candidate, stage |-> stage, kind |-> kind])
    /\ pc' = AfterPc(kind)
    /\ idx' = AfterIdx(kind, idx)
    /\ raised' = AfterRaised(kind)
    /\ twin' = << [pc |-> AfterPc(other), idx |-> AfterIdx(other, idx),
                   raised |-> AfterRaised(other), env |-> env,
                   best |-> best_tuned_combination, results |-> benchmark_results,
                   attempted |-> attempted, reported |-> reported] >>
    /\ UNCHANGED <<mode, env, tuner, max_tuning_duration, initial_model_configuration,
                   admissible_tensor_parallel_degrees, benchmark_results,
                   best_tuned_combination, timeout, now, measured, returned, reported,
                   env0, startClock, firstCheck, attempted, succeeded, overrun>>
    /\ UNCHANGED <<estVars, sideVars>>

AttemptFails ==
    \E stage \in Stages, kind \in FailureKinds :
        \E other \in FailureKinds \ {kind} : Raise(stage, kind, other)

\* the table handed to _pretty_print_results_*_js, if any
Reported(best, results) == IF best /= <<>> THEN <<results>> ELSE <<>>

\* lines 392-418 / 552-578: the best candidate is applied and the table
\* printed, or the snapshot is written back; the model is returned
Finish ==
    /\ pc = "finish"
    /\ env' = FinalEnv(env, tuner, best_tuned_combination, initial_model_configuration[1])
    /\ reported' = Reported(best_tuned_combination, benchmark_results)
    /\ returned' = <<env'>>
    /\ twin' = IF twin /= <<>> /\ twin[1].pc = "finish"
               THEN << [twin[1] EXCEPT
                          !.pc = "done",
                          !.env = FinalEnv(twin[1].env, tuner, twin[1].best,
                                           initial_model_configuration[1]),
                          !.reported = Reported(twin[1].best, twin[1].results)] >>
               ELSE twin
    /\ pc' = "done"
    /\ UNCHANGED <<mode, tuner, max_tuning_duration, initial_model_configuration,
                   admissible_tensor_parallel_degrees, idx, benchmark_results,
                   best_tuned_combination, timeout, now, measured, raised,
                   env0, startClock, firstCheck, attempted, succeeded, failed, overrun>>
    /\ UNCHANGED <<estVars, sideVars>>

TuneUnsupported == TuneUnsupportedWith(Durations)

TuneStart == TuneStartWith(CandidateSeqs, Durations)

SerialBenchmark == SerialBenchmarkWith(Latencies)

Next ==
    \/ TuneUnsupported
    \/ TuneStart
    \/ Tick
    \/ LoopExhausted
    \/ LoopDeadline
    \/ LoopBegin
    \/ DeployOk
    \/ SerialBenchmark
    \/ ConcurrentBenchmark
    \/ CompareOk
    \/ AttemptFails
    \/ Finish

Spec == Init /\ [][Next]_vars

\* the call is sequential code whose deploy and benchmark steps each return
\* or raise: a step that can be taken is eventually taken
SpecLive == Init /\ [][Next]_vars /\ WF_vars(Next)

(* ------------------------------ scenarios ------------------------------ *)

\* max_tuning_duration: int = 1800
DefaultMaxTuningDuration == 1800

\* four candidates that all deploy and benchmark, with these average latencies
Scenario16Degrees == <<1, 2, 4, 8>>

Scenario16Latencies == <<50, 30, 45, 60>>

Init16 == Init /\ mode = LOCAL_CONTAINER

TuneStart16 == TuneStartWith({Scenario16Degrees}, {DefaultMaxTuningDuration})

SerialBenchmark16 == SerialBenchmarkWith({Scenario16Latencies[idx]})

Next16 ==
    \/ TuneStart16
    \/ Tick
    \/ LoopExhausted
    \/ LoopBegin
    \/ DeployOk
    \/ SerialBenchmark16
    \/ ConcurrentBenchmark
    \/ CompareOk
    \/ Finish

Spec16 == Init16 /\ [][Next16]_vars

\* three candidates, the first attempt fails with a load failure
Scenario17Degrees == <<1, 2, 4>>

Init17 == Init /\ mode = LOCAL_CONTAINER

TuneStart17 == TuneStartWith({Scenario17Degrees}, {DefaultMaxTuningDuration})

FirstAttemptFailsToLoad ==
    \E stage \in {"deploy", "serial", "concurrent"} :
        \E other \in FailureKinds \ {"LocalModelLoadException"} :
            Raise(stage, "LocalModelLoadException", other)

Next17 ==
    \/ TuneStart17
    \/ Tick
    \/ LoopBegin
    \/ DeployOk
    \/ SerialBenchmark
    \/ FirstAttemptFailsToLoad
    \/ Finish

Spec17 == Init17 /\ [][Next17]_vars

TypeOK ==
    /\ mode \in Modes
    /\ pc \in {"idle", "loop", "deploy", "serial", "concurrent", "compare",
               "finish", "done", "raised"}
    /\ Len(attempted) <= MaxCandidates

(* ------------------ the two tune functions side by side ---------------- *)

\* environments the two calls are started on
PairEnvs ==
    InitialEnvs \cup
    { [k \in {"OPTION_TENSOR_PARALLEL_DEGREE"} |-> "4"],
      [k \in {"HF_MODEL_ID", "SM_NUM_GPUS"} |-> IF k = "SM_NUM_GPUS" THEN "4" ELSE "m"] }

\* what one step of an attempt can do: return its measurements or raise
Outcomes ==
    [kind : {"ok"} \cup FailureKinds, lat : Latencies, p90 : P90s,
     tok : TokensPerSecond, conc : ConcurrentResults]

\* a tune function before it is called on a model whose env is e
NewRun(e) ==
    [pc |-> "idle", input |-> e, env |-> e, snapshot |-> <<>>, seq |-> <<>>,
     idx |-> 0, results |-> <<>>, best |-> <<>>, timeout |-> 0,
     attempted |-> <<>>, measured |-> <<>>, returned |-> <<>>]

(* tune_for_djl_jumpstart, lines 263-418 *)

\* lines 266-281: the mode guard, then snapshot, candidates, deadline
DjlStart(r, m, seq, dur, clock) ==
    IF TuningUnsupported(m)
    THEN [r EXCEPT !.pc = "done", !.returned = <<r.env>>]
    ELSE [r EXCEPT !.pc = "loop", !.snapshot = <<r.env>>, !.seq = seq, !.idx = 1,
                   !.timeout = ComputeTimeout(clock, dur)]

\* lines 282-293: the loop head writes OPTION_TENSOR_PARALLEL_DEGREE
DjlLoopHead(r, clock) ==
    IF r.pc /= "loop" THEN r
    ELSE IF r.idx > Len(r.seq) \/ DeadlinePassed(clock, r.timeout)
    THEN [r EXCEPT !.pc = "finish"]
    ELSE [r EXCEPT !.pc = "deploy",
                   !.env = DictUpdate(r.env,
                              [k \in {"OPTION_TENSOR_PARALLEL_DEGREE"} |->
                                  Str(r.seq[r.idx])]),
                   !.attempted = Append(@, r.seq[r.idx]),
                   !.measured = <<>>]

\* lines 293-390: one call of the try body returns or raises
DjlAttempt(r, o) ==
    IF r.pc \notin Stages THEN r
    ELSE IF o.kind /= "ok"
    THEN [r EXCEPT !.pc = AfterPc(o.kind), !.idx = AfterIdx(o.kind, r.idx)]
    ELSE CASE r.pc = "deploy" -> [r EXCEPT !.pc = "serial"]
           [] r.pc = "serial" ->
                [r EXCEPT !.pc = "concurrent", !.measured = <<o.lat, o.p90, o.tok>>]
           [] r.pc = "concurrent" ->
                [r EXCEPT !.pc = "compare",
                          !.measured = r.measured \o o.conc,
                          !.results = RecordResult(r.results, r.measured[1], r.env,
                                                   r.measured[2], r.measured[3],
                                                   o.conc[1], o.conc[2])]
           [] OTHER ->
                [r EXCEPT !.pc = "loop", !.idx = r.idx + 1,
                          !.best = SelectBest(r.best,
                                      Combination(r.measured[1], r.seq[r.idx],
                                                  r.measured[2], r.measured[3],
                                                  r.measured[4], r.measured[5]))]

\* lines 392-418: best applied to OPTION_TENSOR_PARALLEL_DEGREE, or the
\* snapshot written back with update, then return
DjlFinish(r) ==
    IF r.pc /= "finish" THEN r
    ELSE LET final ==
                 IF r.best /= <<>>
                 THEN DictUpdate(r.env,
                          [k \in {"OPTION_TENSOR_PARALLEL_DEGREE"} |-> Str(r.best[2])])
                 ELSE DictUpdate(r.env, r.snapshot[1])
         IN  [r EXCEPT !.pc = "done", !.env = final, !.returned = <<final>>]

(* tune_for_tgi_jumpstart, lines 420-578 *)

\* lines 423-439: the mode guard, then snapshot, candidates, deadline
TgiStart(r, m, seq, dur, clock) ==
    IF m /= LOCAL_CONTAINER
    THEN [r EXCEPT !.pc = "done", !.returned = <<r.env>>]
    ELSE [r EXCEPT !.pc = "loop", !.snapshot = <<r.env>>, !.seq = seq, !.idx = 1,
                   !.timeout = clock + dur]

\* mutant: tune_for_tgi_jumpstart does not check the deadline
TgiLoopHeadIgnoresDeadline(r, clock) ==
    IF r.pc /= "loop" THEN r
    ELSE IF r.idx > Len(r.seq)
    THEN [r EXCEPT !.pc = "finish"]
    ELSE [r EXCEPT !.pc = "deploy",
                   !.env = DictUpdate(r.env,
                              [k \in {"SM_NUM_GPUS"} |-> Str(r.seq[r.idx])]),
                   !.attempted = Append(@, r.seq[r.idx]),
                   !.measured = <<>>]

\* lines 440-449: the loop head writes SM_NUM_GPUS
TgiLoopHead(r, clock) ==
    IF r.pc /= "loop" THEN r
    ELSE IF r.idx > Len(r.seq) \/ clock > r.timeout
    THEN [r EXCEPT !.pc = "finish"]
    ELSE [r EXCEPT !.pc = "deploy",
                   !.env = DictUpdate(r.env,
                              [k \in {"SM_NUM_GPUS"} |-> Str(r.seq[r.idx])]),
                   !.attempted = Append(@, r.seq[r.idx]),
                   !.measured = <<>>]

\* lines 500-550: what the except clause that catches `kind` does to the loop
TgiExceptHandler(kind) ==
    CASE kind = "LocalDeepPingException" -> "break"
      [] kind = "LocalModelOutOfMemoryException" -> "break"
      [] kind = "LocalModelInvocationException" -> "break"
      [] kind = "LocalModelLoadException" -> "break"
      [] kind = "SkipTuningComboException" -> "break"
      [] OTHER -> "break"

\* lines 478-499: the best-so-far record after a successful candidate
TgiSelectBest(best, lat, sm_num_gpus, p, tok, thr, sd) ==
    IF best = <<>>
    THEN <<lat, sm_num_gpus, "None", p, tok, thr, sd>>
    ELSE LET tuned_configuration == <<lat, sm_num_gpus, "None", p, tok, thr, sd>>
         IN  IF MorePerformant(best, tuned_configuration)
             THEN tuned_configuration ELSE best

\* lines 451-550: one call of the try body returns or raises
TgiAttempt(r, o) ==
    IF r.pc \notin {"deploy", "serial", "concurrent", "compare"} THEN r
    ELSE IF o.kind /= "ok"
    THEN CASE TgiExceptHandler(o.kind) = "break" -> [r EXCEPT !.pc = "finish"]
           [] TgiExceptHandler(o.kind) = "continue" ->
                [r EXCEPT !.pc = "loop", !.idx = r.idx + 1]
           [] OTHER -> [r EXCEPT !.pc = "raised"]
    ELSE CASE r.pc = "deploy" -> [r EXCEPT !.pc = "serial"]
           [] r.pc = "serial" ->
                [r EXCEPT !.pc = "concurrent", !.measured = <<o.lat, o.p90, o.tok>>]
           [] r.pc = "concurrent" ->
                [r EXCEPT !.pc = "compare",
                          !.measured = r.measured \o o.conc,
                          !.results =
                              [lat \in DOMAIN r.results \cup {r.measured[1]} |->
                                  IF lat = r.measured[1]
                                  THEN <<r.env, r.measured[2], r.measured[3],
                                         o.conc[1], o.conc[2]>>
                                  ELSE r.results[lat]]]
           [] OTHER ->
                [r EXCEPT !.pc = "loop", !.idx = r.idx + 1,
                          !.best = TgiSelectBest(r.best, r.measured[1], r.seq[r.idx],
                                                 r.measured[2], r.measured[3],
                                                 r.measured[4], r.measured[5])]

\* lines 552-578: best applied to SM_NUM_GPUS, or the snapshot written back
\* with update, then return
TgiFinish(r) ==
    IF r.pc /= "finish" THEN r
    ELSE LET final ==
                 IF r.best /= <<>>
                 THEN DictUpdate(r.env, [k \in {"SM_NUM_GPUS"} |-> Str(r.best[2])])
                 ELSE DictUpdate(r.env, r.snapshot[1])
         IN  [r EXCEPT !.pc = "done", !.env = final, !.returned = <<final>>]

(* the harness: both functions take every step on the same inputs *)

\* both functions are about to be called on models with the same environment
PairCreate ==
    /\ runs = <<>>
    /\ \E e \in PairEnvs, c \in StartClocks :
        /\ runs' = [t \in Tuners |-> NewRun(e)]
        /\ pair_now' = c
    /\ UNCHANGED <<tuneVars, estVars, builderVars>>

\* both are called with the same mode, candidates and budget
PairStart ==
    /\ runs /= <<>>
    /\ \A t \in Tuners : runs[t].pc = "idle"
    /\ \E m \in Modes, seq \in CandidateSeqs, dur \in Durations :
        runs' = [t \in Tuners |->
                    IF t = "djl" THEN DjlStart(runs[t], m, seq, dur, pair_now)
                    ELSE TgiStart(runs[t], m, seq, dur, pair_now)]
    /\ UNCHANGED <<pair_now, tuneVars, estVars, builderVars>>

\* the clock both read advances
PairTick ==
    /\ runs /= <<>>
    /\ \E t \in Tuners : runs[t].pc \in {"loop", "deploy", "serial", "concurrent"}
    /\ pair_now < MaxClock
    /\ pair_now' = pair_now + 1
    /\ UNCHANGED <<runs, tuneVars, estVars, builderVars>>

\* both evaluate their loop head on the same clock reading
PairLoopHead ==
    /\ runs /= <<>>
    /\ \E t \in Tuners : runs[t].pc = "loop"
    /\ runs' = [t \in Tuners |->
                    IF t = "djl" THEN DjlLoopHead(runs[t], pair_now)
                    ELSE TgiLoopHead(runs[t], pair_now)]
    /\ UNCHANGED <<pair_now, tuneVars, estVars, builderVars>>

\* the step both are in has the same outcome
PairAttempt ==
    /\ runs /= <<>>
    /\ \E t \in Tuners : runs[t].pc \in Stages
    /\ \E o \in Outcomes :
        /\ \A t \in Tuners :
              (runs[t].pc = "compare" /\ o.kind /= "ok") => runs[t].best /= <<>>
        /\ runs' = [t \in Tuners |->
                        IF t = "djl" THEN DjlAttempt(runs[t], o)
                        ELSE TgiAttempt(runs[t], o)]
    /\ UNCHANGED <<pair_now, tuneVars, estVars, builderVars>>

\* both leave their loop and return
PairFinish ==
    /\ runs /= <<>>
    /\ \E t \in Tuners : runs[t].pc = "finish"
    /\ runs' = [t \in Tuners |->
                    IF t = "djl" THEN DjlFinish(runs[t]) ELSE TgiFinish(runs[t])]
    /\ UNCHANGED <<pair_now, tuneVars, estVars, builderVars>>

InitPair ==
    /\ Init
    /\ mode = LOCAL_CONTAINER
    /\ env = [k \in {"HF_MODEL_ID"} |-> "m"]

NextPair ==
    \/ PairCreate
    \/ PairStart
    \/ PairTick
    \/ PairLoopHead
    \/ PairAttempt
    \/ PairFinish

SpecPair == InitPair /\ [][NextPair]_vars

(* -------------------------- PyTorch estimator -------------------------- *)

LAUNCH_PYTORCH_DDP_ENV_NAME == "sagemaker_pytorch_ddp_enabled"

LAUNCH_TORCH_DISTRIBUTED_ENV_NAME == "sagemaker_torch_distributed_enabled"

INSTANCE_TYPE_ENV_NAME == "sagemaker_instance_type"

\* option dicts of a strategy: {}, {"enabled": True}, {"enabled": False}
NoOptions == [k \in {} |-> TRUE]

EnabledOptions == [k \in {"enabled"} |-> TRUE]

DisabledOptions == [k \in {"enabled"} |-> FALSE]

FlagDicts == {NoOptions, EnabledOptions, DisabledOptions}

\* values of the smdistributed entry: one library with its option dict
SmdistributedDicts ==
    { [k \in {"dataparallel"} |-> o] : o \in FlagDicts }
    \cup { [k \in {"modelparallel"} |-> EnabledOptions] }

StrategyNames == {"pytorchddp", "smdistributed", "torch_distributed", "mpi"}

\* the values the entry of a strategy can have
OptionsOf(name) ==
    CASE name = "smdistributed" -> SmdistributedDicts
      [] name = "mpi" -> {EnabledOptions}
      [] OTHER -> FlagDicts

\* the distribution dicts a caller passes
Distributions ==
    UNION { { d \in [S -> FlagDicts \cup SmdistributedDicts] :
                \A k \in S : d[k] \in OptionsOf(k) }
            : S \in SUBSET StrategyNames }

\* the distribution argument: None or a dict
DistributionArgs == {<<>>} \cup { <<d>> : d \in Distributions }

\* training_recipe: none, a local recipe file with the required fields, or a
\* .yaml recipe that is neither a file nor can be fetched
Recipes == {"None", "recipe.yaml", "missing.yaml"}

\* instance_type: not given, or an instance type
InstanceTypes ==
    {"None", "ml.p4d.24xlarge", "ml.g5.xlarge", "ml.trn1.32xlarge", "ml.c5.xlarge"}

\* d.get(k, default)
DictGet(d, k, default) == IF k \in DOMAIN d THEN d[k] ELSE default

\* d[k] = v
DictSet(d, k, v) == [x \in (DOMAIN d) \cup {k} |-> IF x = k THEN v ELSE d[x]]

\* del d[k]
DictDel(d, k) == [x \in (DOMAIN d) \ {k} |-> d[x]]

\* the positions of "." in s
DotPositions(s) == { i \in 1..Len(s) : SubSeq(s, i, i) = "." }

\* s.split(".")[1], for s with a "."
SplitSecond(s) ==
    LET first == CHOOSE i \in DotPositions(s) : \A j \in DotPositions(s) : i <= j
        later == { i \in DotPositions(s) : i > first }
        second == IF later = {} THEN Len(s) + 1
                  ELSE CHOOSE i \in later : \A j \in later : i <= j
    IN  SubSeq(s, first + 1, second - 1)

\* s.startswith(prefix)
StartsWith(s, prefix) ==
    Len(prefix) <= Len(s) /\ SubSeq(s, 1, Len(prefix)) = prefix

\* lines 583-590: the device type of an instance type
DeviceType(itype) ==
    LET family == SplitSecond(itype)
    IN  IF StartsWith(family, "p") \/ StartsWith(family, "g") THEN "gpu"
        ELSE IF StartsWith(family, "trn") THEN "trainium"
        ELSE "cpu"

\* lines 634-639: the options of smdistributed.modelparallel of a GPU recipe
SmpOptions ==
    [k \in {"enabled", "parameters"} |->
        IF k = "enabled" THEN TRUE
        ELSE [q \in {"placement_strategy"} |-> "cluster"]]

\* args["distribution"] of _setup_for_training_recipe for a device type
RecipeDistribution(device_type) ==
    IF device_type = "gpu"
    THEN [k \in {"smdistributed", "torch_distributed"} |->
            IF k = "smdistributed" THEN [m \in {"modelparallel"} |-> SmpOptions]
            ELSE EnabledOptions]
    ELSE [k \in {"torch_distributed"} |-> EnabledOptions]

\* _setup_for_training_recipe: the ValueError it raises or the distribution
\* of its result
SetupForTrainingRecipe(recipe, itype) ==
    IF recipe = "missing.yaml" THEN [error |-> <<"ValueError">>, distribution |-> <<>>]
    ELSE IF itype = "None" THEN [error |-> <<"ValueError">>, distribution |-> <<>>]
    ELSE IF DeviceType(itype) \notin {"gpu", "trainium"}
    THEN [error |-> <<"ValueError">>, distribution |-> <<>>]
    ELSE [error |-> <<>>, distribution |-> <<RecipeDistribution(DeviceType(itype))>>]

\* mutant: the two strategies conflict only when both are enabled
ConflictingStrategiesWhenEnabled(d) ==
    /\ "pytorchddp" \in DOMAIN d
    /\ "smdistributed" \in DOMAIN d
    /\ DictGet(d["pytorchddp"], "enabled", FALSE)
    /\ \E lib \in DOMAIN d["smdistributed"] :
          DictGet(d["smdistributed"][lib], "enabled", FALSE)

\* if "pytorchddp" in distribution: if "smdistributed" in distribution: raise
ConflictingStrategies(d) ==
    "pytorchddp" \in DOMAIN d /\ "smdistributed" \in DOMAIN d

\* mutant: the rewrite is done on the caller's dict, not on a copy
RewriteDistributionInPlace(d) ==
    [caller |-> DictDel(DictSet(d, "smdistributed",
                                [k \in {"dataparallel"} |-> d["pytorchddp"]]),
                        "pytorchddp"),
     local |-> DictDel(DictSet(d, "smdistributed",
                               [k \in {"dataparallel"} |-> d["pytorchddp"]]),
                       "pytorchddp")]

\* the caller's dict and the local one after the rewrite of pytorchddp into
\* smdistributed.dataparallel, done on a copy
RewriteDistribution(d) ==
    [caller |-> d,
     local |-> DictDel(DictSet(d, "smdistributed",
                               [k \in {"dataparallel"} |-> d["pytorchddp"]]),
                       "pytorchddp")]

\* validate_distribution: returns the distribution it accepts, raises otherwise
ValidateDistribution(d, accepted) ==
    IF accepted THEN [error |-> <<>>, distribution |-> <<d>>]
    ELSE [error |-> <<"ValueError">>, distribution |-> <<>>]

\* the constructor, from the arguments to the exception raised or the value
\* assigned to self.distribution; dist is <<>> or <<dict>>
Construct(dist, recipe, itype, hasEntryPoint, accepted) ==
    LET setup == IF recipe /= "None" THEN SetupForTrainingRecipe(recipe, itype)
                 ELSE [error |-> <<>>, distribution |-> dist]
        given == setup.distribution
        failure == [error |-> <<"ValueError">>, self |-> <<>>, caller |-> dist]
    IN  IF setup.error /= <<>> THEN failure
        ELSE IF recipe = "None" /\ ~hasEntryPoint THEN failure
        ELSE IF given = <<>> THEN [error |-> <<>>, self |-> <<NoOptions>>, caller |-> dist]
        ELSE IF ConflictingStrategies(given[1]) THEN failure
        ELSE LET rewritten ==
                    IF "pytorchddp" \in DOMAIN given[1]
                    THEN RewriteDistribution(given[1])
                    ELSE [caller |-> given[1], local |-> given[1]]
                 callerAfter == IF recipe /= "None" THEN dist ELSE <<rewritten.caller>>
                 validated == ValidateDistribution(rewritten.local, accepted)
             IN  IF validated.error /= <<>>
                 THEN [error |-> validated.error, self |-> <<>>, caller |-> callerAfter]
                 ELSE [error |-> <<>>, self |-> validated.distribution,
                       caller |-> callerAfter]

\* a configuration value: a Python bool or a Python str
PyBool(b) == <<"bool", b>>

PyStr(x) == <<"str", x>>

\* EstimatorBase._distribution_configuration: the mpi and smdistributed entries
DistributionConfiguration(d, itype) ==
    LET mpi == "mpi" \in DOMAIN d /\ DictGet(d["mpi"], "enabled", FALSE)
        smd == "smdistributed" \in DOMAIN d
        dp == smd /\ DictGet(DictGet(d["smdistributed"], "dataparallel", NoOptions),
                             "enabled", FALSE)
        mp == smd /\ ~dp
                  /\ DictGet(DictGet(d["smdistributed"], "modelparallel", NoOptions),
                             "enabled", FALSE)
        keys == (IF mpi \/ mp THEN {"sagemaker_mpi_enabled"} ELSE {})
                \cup (IF dp THEN {"sagemaker_distributed_dataparallel_enabled",
                                  INSTANCE_TYPE_ENV_NAME} ELSE {})
                \cup (IF mp THEN {"mp_parameters"} ELSE {})
    IN  [k \in keys |->
            CASE k = INSTANCE_TYPE_ENV_NAME -> PyStr(itype)
              [] k = "mp_parameters" -> PyStr("parameters")
              [] OTHER -> PyBool(TRUE)]

\* if self.instance_type is not None: config[INSTANCE_TYPE_ENV_NAME] = instance_type
WithInstanceType(config, itype) ==
    IF itype /= "None" THEN DictSet(config, INSTANCE_TYPE_ENV_NAME, PyStr(itype))
    ELSE config

\* mutant: the torch_distributed branch does not merge the smdistributed entries
PytorchDistributionConfigurationNoMerge(d, itype) ==
    LET ddp == IF "pytorchddp" \in DOMAIN d
               THEN DictGet(d["pytorchddp"], "enabled", FALSE) ELSE FALSE
        torch == IF "pytorchddp" \in DOMAIN d THEN FALSE
                 ELSE IF "torch_distributed" \in DOMAIN d
                      THEN DictGet(d["torch_distributed"], "enabled", FALSE)
                      ELSE FALSE
    IN  IF ddp
        THEN WithInstanceType(
                DictSet(NoOptions, LAUNCH_PYTORCH_DDP_ENV_NAME, PyBool(ddp)), itype)
        ELSE IF torch
        THEN WithInstanceType(
                DictSet(NoOptions, LAUNCH_TORCH_DISTRIBUTED_ENV_NAME, PyBool(torch)),
                itype)
        ELSE DistributionConfiguration(d, itype)

\* _pytorch_distribution_configuration(distribution)
PytorchDistributionConfiguration(d, itype) ==
    LET ddp == IF "pytorchddp" \in DOMAIN d
               THEN DictGet(d["pytorchddp"], "enabled", FALSE) ELSE FALSE
        torch == IF "pytorchddp" \in DOMAIN d THEN FALSE
                 ELSE IF "torch_distributed" \in DOMAIN d
                      THEN DictGet(d["torch_distributed"], "enabled", FALSE)
                      ELSE FALSE
    IN  IF ddp
        THEN WithInstanceType(
                DictSet(NoOptions, LAUNCH_PYTORCH_DDP_ENV_NAME, PyBool(ddp)), itype)
        ELSE IF torch
        THEN WithInstanceType(
                DictSet(IF "smdistributed" \in DOMAIN d
                        THEN DistributionConfiguration(d, itype) ELSE NoOptions,
                        LAUNCH_TORCH_DISTRIBUTED_ENV_NAME, PyBool(torch)),
                itype)
        ELSE DistributionConfiguration(d, itype)

\* json.dumps of a bool or of a str
JsonEncode(v) ==
    IF v[1] = "bool" THEN (IF v[2] THEN "true" ELSE "false")
    ELSE "\"" \o v[2] \o "\""

\* EstimatorBase._json_encode_hyperparameters
JsonEncodeHyperparameters(config) == [k \in DOMAIN config |-> JsonEncode(config[k])]

\* super().hyperparameters(): the entries of the framework
BaseHyperparameters == [k \in {"sagemaker_program"} |-> JsonEncode(PyStr("train.py"))]

\* PyTorch.__init__
PyTorchInit ==
    /\ est_pc = "new"
    /\ \E dist \in DistributionArgs, recipe \in Recipes, itype \in InstanceTypes,
          hasEntryPoint \in BOOLEAN, accepted \in BOOLEAN :
          LET out == Construct(dist, recipe, itype, hasEntryPoint, accepted)
          IN  /\ arg_distribution' = dist
              /\ training_recipe' = recipe
              /\ instance_type' = itype
              /\ caller_distribution' = out.caller
              /\ self_distribution' = out.self
              /\ est_error' = out.error
              /\ est_pc' = IF out.error = <<>> THEN "constructed" ELSE "failed"
    /\ UNCHANGED <<hyperparams, tuneVars, sideVars>>

\* PyTorch.hyperparameters, without a compiler_config
Hyperparameters ==
    /\ est_pc = "constructed"
    /\ hyperparams' =
          << DictUpdate(BaseHyperparameters,
                        JsonEncodeHyperparameters(
                            PytorchDistributionConfiguration(self_distribution[1],
                                                             instance_type))) >>
    /\ UNCHANGED <<est_pc, training_recipe, arg_distribution, caller_distribution,
                   self_distribution, instance_type, est_error, tuneVars, sideVars>>

InitEstimator ==
    /\ Init
    /\ mode = SAGEMAKER_ENDPOINT
    /\ env = [k \in {"HF_MODEL_ID"} |-> "m"]

NextEstimator ==
    \/ PyTorchInit
    \/ Hyperparameters

SpecEstimator == InitEstimator /\ [][NextEstimator]_vars

(* ----------------------- build and deploy wrapper ---------------------- *)

DJL_SERVING == "DJL_SERVING"

TGI == "TGI"

IN_PROCESS == "IN_PROCESS"

\* image URIs a JumpStart model can be packaged with
ImageUris ==
    {"ecr/djl-inference:0.21.0-deepspeed0.8.3-cu117",
     "ecr/huggingface-pytorch-tgi-inference:2.0.1-tgi1.1.0",
     "ecr/pytorch-inference:2.0.0-gpu-py310",
     "mirror/tgi-inference/djl-inference:latest"}

\* sub in s
Contains(s, sub) ==
    \E i \in 1..(Len(s) - Len(sub) + 1) : SubSeq(s, i, i + Len(sub) - 1) = sub

\* mutant: tgi-inference is looked for first
SelectModelServerTgiFirst(uri) ==
    IF Contains(uri, "tgi-inference") THEN TGI
    ELSE IF Contains(uri, "djl-inference") THEN DJL_SERVING
    ELSE "None"

\* lines 592-611: the server the image is for, "None" when it is for neither
SelectModelServer(uri) ==
    IF Contains(uri, "djl-inference") THEN DJL_SERVING
    ELSE IF Contains(uri, "tgi-inference") THEN TGI
    ELSE "None"

\* lines 613-616: the tune operation of a model server
TuneOperation(server) ==
    CASE server = TGI -> "tune_for_tgi_jumpstart"
      [] server = DJL_SERVING -> "tune_for_djl_jumpstart"
      [] OTHER -> "None"

\* hasattr(self, name), for an attribute held as <<>> or <<value>>
HasAttr(attribute) == attribute /= <<>>

\* the environments _prepare_for_mode returns in SAGEMAKER_ENDPOINT mode
PreparedEnvs ==
    { <<>>, [k \in {"SAGEMAKER_PROGRAM"} |-> "inference.py"],
      [k \in {"HF_MODEL_ID"} |-> "s3" ] }

\* _build_for_djl_jumpstart / _build_for_tgi_jumpstart for an attribute
\* prepared_for_<server>: the attribute, the local env and nb_instance_type
BuildForServer(server, m, attribute, nb, pe) ==
    IF m = LOCAL_CONTAINER
    THEN [attribute |-> IF ~HasAttr(attribute) THEN <<"prepared">> ELSE attribute,
          env |-> <<>>, nb |-> nb]
    ELSE IF m = SAGEMAKER_ENDPOINT /\ HasAttr(attribute)
    THEN [attribute |-> attribute, env |-> pe,
          nb |-> IF server = DJL_SERVING THEN "ml.nb" ELSE nb]
    ELSE [attribute |-> attribute, env |-> <<>>, nb |-> nb]

\* _build_for_jumpstart
Build ==
    /\ build_pc = "new"
    /\ secret_key' = "None"
    /\ \E pe \in PreparedEnvs :
        LET uri == packaged_image_uri
            server == SelectModelServer(uri)
            built == BuildForServer(server, mode,
                                    IF server = DJL_SERVING THEN prepared_for_djl
                                    ELSE prepared_for_tgi,
                                    nb_instance_type, pe)
        IN  IF server = "None"
            THEN /\ build_pc' = "failed"
                 /\ build_error' = <<"ValueError">>
                 /\ UNCHANGED <<env, image_uri, model_server, pysdk_model, tune,
                                prepared_for_djl, prepared_for_tgi, nb_instance_type>>
            ELSE /\ build_pc' = "built"
                 /\ build_error' = <<>>
                 /\ model_server' = server
                 /\ pysdk_model' = "JumpStartModel"
                 /\ image_uri' = uri
                 /\ prepared_for_djl' = IF server = DJL_SERVING THEN built.attribute
                                        ELSE prepared_for_djl
                 /\ prepared_for_tgi' = IF server = TGI THEN built.attribute
                                        ELSE prepared_for_tgi
                 /\ nb_instance_type' = built.nb
                 /\ env' = DictUpdate(env, built.env)
                 /\ tune' = TuneOperation(server)
    /\ UNCHANGED <<mode, pysdk_mode, packaged_image_uri, last_deploy>>
    /\ UNCHANGED <<pc, tuner, max_tuning_duration, initial_model_configuration,
                   admissible_tensor_parallel_degrees, idx, benchmark_results,
                   best_tuned_combination, timeout, now, measured, returned,
                   reported, raised, histVars>>
    /\ UNCHANGED <<estVars, pairVars>>

\* values of the mode keyword of deploy
ModeArgs == {LOCAL_CONTAINER, SAGEMAKER_ENDPOINT, IN_PROCESS}

\* the values a keyword argument of deploy can have
KwargValues(name) ==
    CASE name = "mode" -> ModeArgs
      [] name = "role" -> {"arn:role"}
      [] OTHER -> {"True", "False"}

\* the keyword arguments of a deploy call
Kwargs ==
    UNION { { kw \in [S -> ModeArgs \cup {"arn:role", "True", "False"}] :
                \A k \in S : kw[k] \in KwargValues(k) }
            : S \in SUBSET {"mode", "role", "endpoint_logging"} }

\* mutant: every mode argument overrides, also one equal to the current mode
OverrideRequestedByAnyMode(kw, m) == "mode" \in DOMAIN kw

\* line 126: "mode" in kwargs and kwargs.get("mode") != self.mode
OverrideRequested(kw, m) == "mode" \in DOMAIN kw /\ kw["mode"] /= m

\* lines 126-166: the override of the mode; b holds mode, pysdk_mode, env and
\* the two preparation attributes, pe is what _prepare_for_mode returns
Override(b, kw, pe) ==
    LET same == [mode |-> b.mode, pysdk_mode |-> b.pysdk_mode, env |-> b.env,
                 djl |-> b.djl, tgi |-> b.tgi, error |-> <<>>, prepared |-> <<>>,
                 prepare_for_mode |-> 0, overridden |-> FALSE]
    IN  IF ~OverrideRequested(kw, b.mode) THEN same
        ELSE IF kw["mode"] = SAGEMAKER_ENDPOINT
        THEN LET bound == ~HasAttr(b.djl) \/ ~HasAttr(b.tgi)
             IN  [same EXCEPT !.mode = SAGEMAKER_ENDPOINT,
                              !.pysdk_mode = SAGEMAKER_ENDPOINT,
                              !.env = IF bound THEN DictUpdate(b.env, pe) ELSE b.env,
                              !.error = IF bound THEN <<>> ELSE <<"UnboundLocalError">>,
                              !.prepare_for_mode = IF bound THEN 1 ELSE 0,
                              !.overridden = TRUE]
        ELSE IF kw["mode"] = LOCAL_CONTAINER
        THEN [same EXCEPT !.mode = LOCAL_CONTAINER,
                          !.pysdk_mode = LOCAL_CONTAINER,
                          !.djl = IF ~HasAttr(b.djl) THEN <<"prepared">> ELSE b.djl,
                          !.tgi = IF HasAttr(b.djl) /\ ~HasAttr(b.tgi)
                                  THEN <<"prepared">> ELSE b.tgi,
                          !.prepared = IF ~HasAttr(b.djl) THEN <<"djl">>
                                       ELSE IF ~HasAttr(b.tgi) THEN <<"tgi">>
                                       ELSE <<>>,
                          !.env = DictUpdate(b.env, <<>>),
                          !.prepare_for_mode = 1,
                          !.overridden = TRUE]
        ELSE [same EXCEPT !.error = <<"ValueError">>]

\* mutant: the role argument is handed on to the original deploy
PassedKwargsKeepsRole(kw, nb) ==
    LET logged == IF "endpoint_logging" \notin DOMAIN kw
                  THEN DictSet(kw, "endpoint_logging", "True") ELSE kw
        typed == DictSet(logged, "instance_type", nb)
    IN  DictDel(typed, "mode")

\* lines 195-204: the keyword arguments handed to the original deploy
PassedKwargs(kw, nb) ==
    LET logged == IF "endpoint_logging" \notin DOMAIN kw
                  THEN DictSet(kw, "endpoint_logging", "True") ELSE kw
        typed == DictSet(logged, "instance_type", nb)
    IN  DictDel(DictDel(typed, "mode"), "role")

\* lines 168-210: the deploy is served by a local server or handed to the
\* original deploy, by the mode in force
Route(o, kw, server, nb) ==
    IF o.error /= <<>>
    THEN [error |-> o.error, servers |-> <<>>, original |-> <<>>]
    ELSE IF o.mode = LOCAL_CONTAINER
    THEN IF server \in {DJL_SERVING, TGI}
         THEN [error |-> <<>>, servers |-> <<o.env>>, original |-> <<>>]
         ELSE [error |-> <<"UnboundLocalError">>, servers |-> <<>>, original |-> <<>>]
    ELSE [error |-> <<>>, servers |-> <<>>, original |-> <<PassedKwargs(kw, nb)>>]

\* _js_builder_deploy_wrapper(**kwargs)
Deploy ==
    /\ build_pc = "built"
    /\ \E kw \in Kwargs, pe \in PreparedEnvs :
        LET before == [mode |-> mode, pysdk_mode |-> pysdk_mode, env |-> env,
                       djl |-> prepared_for_djl, tgi |-> prepared_for_tgi]
            o == Override(before, kw, pe)
            routed == Route(o, kw, model_server, nb_instance_type)
        IN  /\ mode' = o.mode
            /\ pysdk_mode' = o.pysdk_mode
            /\ env' = o.env
            /\ prepared_for_djl' = o.djl
            /\ prepared_for_tgi' = o.tgi
            /\ last_deploy' =
                  << [kwargs |-> kw, before |-> before, overridden |-> o.overridden,
                      prepared |-> o.prepared,
                      prepare_for_mode |-> o.prepare_for_mode,
                      prepared_env |-> pe,
                      error |-> routed.error, servers |-> routed.servers,
                      original |-> routed.original] >>
    /\ UNCHANGED <<build_pc, build_error, packaged_image_uri, image_uri,
                   model_server, pysdk_model, tune, secret_key, nb_instance_type>>
    /\ UNCHANGED <<pc, tuner, max_tuning_duration, initial_model_configuration,
                   admissible_tensor_parallel_degrees, idx, benchmark_results,
                   best_tuned_combination, timeout, now, measured, returned,
                   reported, raised, histVars>>
    /\ UNCHANGED <<estVars, pairVars>>

\* a builder that is configured and not built: a secret key may be set
InitBuilder ==
    /\ EstimatorInit
    /\ PairInit
    /\ TuneInit
    /\ build_pc = "new"
    /\ build_error = <<>>
    /\ packaged_image_uri \in ImageUris
    /\ image_uri = "None"
    /\ model_server = "None"
    /\ pysdk_model = "None"
    /\ pysdk_mode \in {"None", mode}
    /\ tune = "None"
    /\ secret_key \in {"None", "secret"}
    /\ prepared_for_djl = <<"None">>
    /\ prepared_for_tgi = <<"None">>
    /\ nb_instance_type = "None"
    /\ last_deploy = <<>>

NextBuilder ==
    \/ Build
    \/ Deploy

SpecBuilder == InitBuilder /\ [][NextBuilder]_vars

(* ------------------------- derived notions ----------------------------- *)

\* the environment variable the running call tunes
Key == TunedKey(tuner)

\* the value of the tuned key in an environment map: <<>> when absent
TunedValue(e) == IF Key \in DOMAIN e THEN <<e[Key]>> ELSE <<>>

\* the call took the tuning path and has returned
TunedAndDone == pc = "done" /\ initial_model_configuration /= <<>>

\* degrees of the candidates whose attempt completed without an exception
SucceededDegrees == { succeeded[i][2] : i \in 1..Len(succeeded) }

\* degrees of the candidates whose attempt raised
FailedDegrees == { failed[i].degree : i \in 1..Len(failed) }

\* degrees of the candidates whose deploy was never invoked
UntriedDegrees ==
    { admissible_tensor_parallel_degrees[i] :
        i \in 1..Len(admissible_tensor_parallel_degrees) }
    \ { attempted[i] : i \in 1..Len(attempted) }

\* degrees of the candidates that were deployed and went through both benchmarks
BenchmarkedDegrees ==
    SucceededDegrees \cup
    { failed[i].degree : i \in { j \in 1..Len(failed) : failed[j].stage = "compare" } }

\* succeeded[i] is the best of the completed attempts: none is more
\* performant, and it is more performant than every earlier one
IsBestSucceeded(i) ==
    /\ \A j \in 1..Len(succeeded) : ~MorePerformant(succeeded[i], succeeded[j])
    /\ \A j \in 1..(i - 1) : MorePerformant(succeeded[j], succeeded[i])

(* ------------------------------ claims --------------------------------- *)

\* C1: when every attempted candidate failed, the environment map of the
\* returned model equals the snapshot taken before the loop, key for key.
C1_FallbackEqualsSnapshot ==
    (TunedAndDone /\ failed /= <<>> /\ succeeded = <<>>)
        => returned[1] = initial_model_configuration[1]

\* C2: when at least one candidate completed, the tuned key of the returned
\* model holds the degree of the best completed candidate, and neither the
\* degree of a failed candidate nor that of an untried one.
C2_ReturnsBestAttempted ==
    (TunedAndDone /\ succeeded /= <<>>) =>
        /\ Key \in DOMAIN returned[1]
        /\ \E i \in 1..Len(succeeded) :
              IsBestSucceeded(i) /\ returned[1][Key] = Str(succeeded[i][2])
        /\ \A d \in FailedDegrees \cup UntriedDegrees : returned[1][Key] /= Str(d)

\* a first candidate completed, the next one failed, the call returned
C2_Witness ==
    TunedAndDone /\ succeeded /= <<>> /\ failed /= <<>>

\* C3: the tuned key of the returned model holds either what it held in the
\* input (absent when it was absent) or the degree of a candidate that was
\* deployed and benchmarked.
C3_InputOrBenchmarked ==
    pc = "done" =>
        \/ TunedValue(returned[1]) = TunedValue(env0)
        \/ \E d \in BenchmarkedDegrees : TunedValue(returned[1]) = <<Str(d)>>

\* C4: once an attempt has failed, no candidate is attempted any more: no
\* later one and not the failed one again.
C4_FailureStopsSweep ==
    [][failed /= <<>> => attempted' = attempted]_vars

\* an attempt failed while candidates were left, and the call returned
C4_Witness ==
    /\ TunedAndDone
    /\ failed /= <<>>
    /\ Len(attempted) < Len(admissible_tensor_parallel_degrees)

\* C5: the same failure step raising any other kind leaves the same loop
\* position, attempted candidates, best-so-far record, results table,
\* environment and reported table, up to and including the return.
C5_KindsIndistinguishable ==
    twin /= <<>> =>
        twin[1] = [pc |-> pc, idx |-> idx, raised |-> raised, env |-> env,
                   best |-> best_tuned_combination, results |-> benchmark_results,
                   attempted |-> attempted, reported |-> reported]

\* a candidate completed, a later one failed, and both runs returned
C5_Witness ==
    /\ twin /= <<>>
    /\ twin[1].pc = "done"
    /\ pc = "done"
    /\ succeeded /= <<>>
    /\ failed /= <<>>

\* the deadline computed at the start of the call has passed
BudgetExceeded == now - startClock > max_tuning_duration

\* C6: an attempt begins only while the time elapsed since the deadline was
\* computed does not exceed max_tuning_duration, and at a loop head where it
\* does, the environment and the attempted candidates stay as they are.
C6_NoAttemptAfterDeadline ==
    [][ /\ attempted' /= attempted => ~BudgetExceeded
        /\ (/\ pc = "loop"
            /\ idx <= Len(admissible_tensor_parallel_degrees)
            /\ BudgetExceeded)
              => (env' = env /\ attempted' = attempted /\ pc' \in {"loop", "finish"})
      ]_vars

\* the deadline stopped the loop after an attempt, with a candidate left
C6_Witness ==
    /\ pc = "finish"
    /\ failed = <<>>
    /\ attempted /= <<>>
    /\ idx <= Len(admissible_tensor_parallel_degrees)
    /\ BudgetExceeded

\* C7, as stated: with max_tuning_duration = 0 no candidate is attempted,
\* whatever the clock reads at the first deadline check.
C7_ZeroBudgetNoAttempt ==
    (pc /= "idle" /\ max_tuning_duration = 0) => attempted = <<>>

\* C7, amended: with max_tuning_duration = 0 and a first deadline check that
\* reads a clock later than the one the deadline was computed from, no
\* candidate is attempted and the returned model has the input environment.
C7_ZeroBudgetAdvancedClock ==
    (/\ max_tuning_duration = 0
     /\ firstCheck /= <<>>
     /\ firstCheck[1] > startClock)
        => /\ attempted = <<>>
           /\ env = env0
           /\ pc \in {"finish", "done"}
           /\ pc = "done" => returned = <<env0>>

\* a zero budget, the clock advanced before the first check, the call returned
C7_Witness ==
    /\ pc = "done"
    /\ max_tuning_duration = 0
    /\ admissible_tensor_parallel_degrees /= <<>>
    /\ firstCheck /= <<>>
    /\ firstCheck[1] > startClock

\* C8: outside LOCAL_CONTAINER the call returns at once with the input
\* environment: no snapshot, no candidates, no deadline check, no attempt.
C8_UnsupportedModeReturnsInput ==
    (mode /= LOCAL_CONTAINER /\ pc /= "idle") =>
        /\ pc = "done"
        /\ returned = <<env0>>
        /\ env = env0
        /\ initial_model_configuration = <<>>
        /\ admissible_tensor_parallel_degrees = <<>>
        /\ idx = 0
        /\ firstCheck = <<>>
        /\ attempted = <<>>
        /\ benchmark_results = <<>>
        /\ reported = <<>>

\* a call in SAGEMAKER_ENDPOINT mode has returned
C8_Witness ==
    mode = SAGEMAKER_ENDPOINT /\ pc = "done" /\ returned /= <<>>

\* C9: no exception of an attempt leaves the call: after a failure the call
\* is at its epilogue or has returned a model.
C9_NeverRaises ==
    /\ raised = <<>>
    /\ pc /= "raised"
    /\ failed /= <<>> => pc \in {"finish", "done"}
    /\ pc = "done" => returned /= <<>>

\* the comparator raised an uncategorized exception and the call returned
C9_Witness ==
    /\ pc = "done"
    /\ returned /= <<>>
    /\ failed /= <<>>
    /\ failed[1].stage = "compare"
    /\ failed[1].kind = "Exception"

\* C10: the best-so-far record never has a higher average latency than a
\* completed candidate, and the degree returned is never that of a completed
\* candidate with a higher average latency than another completed one.
C10_LowerLatencyWins ==
    succeeded /= <<>> =>
        /\ best_tuned_combination /= <<>>
        /\ \A i \in 1..Len(succeeded) : best_tuned_combination[1] <= succeeded[i][1]
        /\ pc = "done" =>
              \A i, j \in 1..Len(succeeded) :
                  succeeded[i][1] < succeeded[j][1]
                      => returned[1][Key] /= Str(succeeded[j][2])

\* the later candidate had the lower latency and the lower throughput
C10_Witness ==
    /\ pc = "done"
    /\ Len(succeeded) >= 2
    /\ succeeded[2][1] < succeeded[1][1]
    /\ succeeded[2][6] < succeeded[1][6]
    /\ best_tuned_combination = succeeded[2]

\* the key the claims name for the running tuner: OPTION_TENSOR_PARALLEL_DEGREE
\* for DJL, SM_NUM_GPUS for TGI
NamedKey ==
    IF tuner = "djl" THEN "OPTION_TENSOR_PARALLEL_DEGREE" ELSE "SM_NUM_GPUS"

\* an attempt is between its deploy call and the end of its try body
InAttempt == pc \in {"deploy", "serial", "concurrent", "compare"}

\* C11: when a candidate completed, the table that is reported has exactly
\* one entry per benchmarked candidate; when none completed nothing is
\* reported and the table is empty.
C11_FullTableReported ==
    TunedAndDone =>
        /\ succeeded /= <<>> =>
              /\ reported /= <<>>
              /\ Cardinality(DOMAIN reported[1]) = Cardinality(BenchmarkedDegrees)
        /\ succeeded = <<>> => (reported = <<>> /\ benchmark_results = <<>>)

\* C12: a candidate is attempted only from the loop head, when every earlier
\* attempt has completed without failure, and it is the next one of the
\* admissible sequence; at most one attempt is in flight.
C12_SerialInOrder ==
    /\ [](Len(attempted) - Len(succeeded) - Len(failed) = (IF InAttempt THEN 1 ELSE 0))
    /\ [][attempted' /= attempted =>
            /\ pc = "loop"
            /\ failed = <<>>
            /\ Len(succeeded) = Len(attempted)
            /\ attempted' =
                  Append(attempted,
                         admissible_tensor_parallel_degrees[Len(attempted) + 1])
         ]_vars

\* two candidates were attempted one after the other
C12_Witness ==
    /\ pc = "deploy"
    /\ Len(attempted) = 2
    /\ Len(succeeded) = 1
    /\ attempted[1] /= attempted[2]

\* C13: an attempt that is under way when the deadline passes is not stopped:
\* its next step is the next call of the try body or an exception of that
\* call, and at the end its result is recorded and compared like any other.
C13_DeadlineIsCooperative ==
    /\ [](\A i \in 1..Len(overrun) : overrun[i] \in SucceededDegrees)
    /\ [][(InAttempt /\ DeadlinePassed(now, timeout) /\ failed' = failed) =>
            /\ attempted' = attempted
            /\ pc = "deploy" => pc' \in {"deploy", "serial"}
            /\ pc = "serial" => pc' \in {"serial", "concurrent"}
            /\ pc = "concurrent" => pc' \in {"concurrent", "compare"}
            /\ pc = "compare" =>
                  /\ pc' = "loop"
                  /\ Len(succeeded') = Len(succeeded) + 1
                  /\ succeeded'[Len(succeeded')][2] = attempted[Len(attempted)]
                  /\ best_tuned_combination' /= <<>>
                  /\ (\/ best_tuned_combination = <<>>
                      \/ succeeded'[Len(succeeded')][1] < best_tuned_combination[1])
                        => best_tuned_combination' = succeeded'[Len(succeeded')]
         ]_vars

\* the second candidate completed after the deadline and was returned as best
C13_Witness ==
    /\ pc = "done"
    /\ Len(succeeded) = 2
    /\ overrun = <<succeeded[2][2]>>
    /\ returned[1][NamedKey] = Str(overrun[1])
    /\ returned[1][NamedKey] /= Str(succeeded[1][2])

\* C14: the best-so-far record changes only when an attempt completes, to
\* the combination of that attempt, and only when there was no best or the
\* comparator reports the new combination as more performant; it is always
\* the combination of a completed attempt.
C14_BestChangesOnlyOnBetter ==
    /\ [](best_tuned_combination /= <<>> =>
            \E i \in 1..Len(succeeded) : best_tuned_combination = succeeded[i])
    /\ [][best_tuned_combination' /= best_tuned_combination =>
            /\ pc = "compare"
            /\ pc' = "loop"
            /\ failed' = failed
            /\ best_tuned_combination' =
                  Combination(measured[1], attempted[Len(attempted)], measured[2],
                              measured[3], measured[4], measured[5])
            /\ \/ best_tuned_combination = <<>>
               \/ MorePerformant(best_tuned_combination, best_tuned_combination')
         ]_vars

\* a less performant second result left the best-so-far record as it was
C14_Witness ==
    /\ pc = "loop"
    /\ Len(succeeded) = 2
    /\ best_tuned_combination = succeeded[1]
    /\ MorePerformant(succeeded[2], succeeded[1])

\* C15: while a candidate is deployed and benchmarked, the environment map
\* holds the string form of that candidate under the key of the tuner.
C15_EnvSetBeforeDeploy ==
    InAttempt =>
        /\ NamedKey \in DOMAIN env
        /\ env[NamedKey] = Str(attempted[Len(attempted)])
        /\ attempted[Len(attempted)] = admissible_tensor_parallel_degrees[idx]

\* mid-loop, the TGI key differs from the input and from the best so far
C15_Witness ==
    /\ pc = "deploy"
    /\ tuner = "tgi"
    /\ env /= env0
    /\ best_tuned_combination /= <<>>
    /\ env[NamedKey] /= Str(best_tuned_combination[2])
    /\ TunedValue(env0) /= <<env[NamedKey]>>

\* C16: candidates [1, 2, 4, 8] that all succeed with average latencies
\* [50, 30, 45, 60] are all attempted and the tuned key returned is "2".
C16_ScenarioPicksTwo ==
    pc = "done" =>
        /\ attempted = Scenario16Degrees
        /\ Len(succeeded) = 4
        /\ \A i \in 1..4 : succeeded[i][1] = Scenario16Latencies[i]
        /\ NamedKey \in DOMAIN returned[1]
        /\ returned[1][NamedKey] = "2"

\* the four candidates completed and the call returned
C16_Witness ==
    /\ pc = "done"
    /\ Len(succeeded) = 4
    /\ best_tuned_combination[1] = 30

\* C17: with candidates [1, 2, 4] and a load failure in the first attempt,
\* only candidate 1 is attempted, the returned environment equals the
\* snapshot and the results table is empty.
C17_ScenarioLoadFailure ==
    pc = "done" =>
        /\ attempted = <<1>>
        /\ benchmark_results = <<>>
        /\ reported = <<>>
        /\ returned[1] = initial_model_configuration[1]

(* the strategies a hyperparameter map activates *)
ActiveStrategies(h) ==
    (IF LAUNCH_PYTORCH_DDP_ENV_NAME \in DOMAIN h
        /\ h[LAUNCH_PYTORCH_DDP_ENV_NAME] = "true"
     THEN {"pytorchddp"} ELSE {})
    \cup (IF LAUNCH_TORCH_DISTRIBUTED_ENV_NAME \in DOMAIN h
             /\ h[LAUNCH_TORCH_DISTRIBUTED_ENV_NAME] = "true"
          THEN {"torch_distributed"} ELSE {})
    \cup (IF \/ /\ "sagemaker_distributed_dataparallel_enabled" \in DOMAIN h
                /\ h["sagemaker_distributed_dataparallel_enabled"] = "true"
             \/ "mp_parameters" \in DOMAIN h
          THEN {"smdistributed"} ELSE {})

(* the accepted distribution enables torch_distributed *)
TorchDistributedEnabled(d) ==
    /\ "torch_distributed" \in DOMAIN d
    /\ DictGet(d["torch_distributed"], "enabled", FALSE)

(* the accepted distribution enables a library of smdistributed *)
SmdistributedEnabled(d) ==
    /\ "smdistributed" \in DOMAIN d
    /\ \E lib \in DOMAIN d["smdistributed"] :
          DictGet(d["smdistributed"][lib], "enabled", FALSE)

(* the constructor was called with a distribution naming both strategies *)
NamesBoth ==
    /\ est_pc /= "new"
    /\ arg_distribution /= <<>>
    /\ {"pytorchddp", "smdistributed"} \subseteq DOMAIN arg_distribution[1]

(* the constructor raised ValueError with self.distribution unassigned and
   the caller's dict as it was passed *)
FailedCleanly ==
    /\ est_pc = "failed"
    /\ est_error = <<"ValueError">>
    /\ self_distribution = <<>>
    /\ caller_distribution = arg_distribution

\* C18, as stated: a constructor call whose distribution names both pytorchddp
\* and smdistributed always fails with ValueError, before self.distribution
\* is assigned and without modifying the caller's dict.
C18_BothNamedAlwaysFails ==
    NamesBoth => FailedCleanly

\* C18, amended: a constructor call without a training_recipe whose
\* distribution names both pytorchddp and smdistributed fails with ValueError,
\* whatever the other entries and the enabled flags are, before
\* self.distribution is assigned and without modifying the caller's dict; with
\* a training_recipe the distribution argument is ignored and a constructed
\* estimator holds the distribution of the recipe setup.
C18_BothNamedFailsWithoutRecipe ==
    /\ (NamesBoth /\ training_recipe = "None") => FailedCleanly
    /\ (NamesBoth /\ training_recipe /= "None") =>
          /\ caller_distribution = arg_distribution
          /\ est_pc = "constructed" =>
                self_distribution = <<RecipeDistribution(DeviceType(instance_type))>>

\* both strategies named with their flags off, beside other entries, and the
\* constructor failed
C18_Witness ==
    /\ NamesBoth
    /\ training_recipe = "None"
    /\ est_pc = "failed"
    /\ arg_distribution[1]["pytorchddp"] = DisabledOptions
    /\ "dataparallel" \in DOMAIN arg_distribution[1]["smdistributed"]
    /\ arg_distribution[1]["smdistributed"]["dataparallel"] = DisabledOptions
    /\ "mpi" \in DOMAIN arg_distribution[1]

\* C19, as stated: the hyperparameters of a constructed estimator activate at
\* most one of pytorchddp, torch_distributed and smdistributed.
C19_AtMostOneActive ==
    (est_pc = "constructed" /\ hyperparams /= <<>>) =>
        Cardinality(ActiveStrategies(hyperparams[1])) <= 1

\* C19, amended: the hyperparameters of a constructed estimator activate at
\* most one of pytorchddp, torch_distributed and smdistributed, except that
\* torch_distributed and smdistributed are both active exactly when the
\* accepted distribution enables both; pytorchddp is never active.
C19_OneActiveOrTorchWithSmdistributed ==
    (est_pc = "constructed" /\ hyperparams /= <<>>) =>
        LET active == ActiveStrategies(hyperparams[1])
            d == self_distribution[1]
        IN  /\ "pytorchddp" \notin active
            /\ Cardinality(active) = 2 <=>
                  (TorchDistributedEnabled(d) /\ SmdistributedEnabled(d))

\* a distribution given as pytorchddp with torch_distributed, both enabled,
\* was accepted and its hyperparameters activate two strategies
C19_Witness ==
    /\ est_pc = "constructed"
    /\ hyperparams /= <<>>
    /\ training_recipe = "None"
    /\ arg_distribution /= <<>>
    /\ "pytorchddp" \in DOMAIN arg_distribution[1]
    /\ ActiveStrategies(hyperparams[1]) = {"torch_distributed", "smdistributed"}

\* C20: in the returned environment every key other than the tuned one is
\* present exactly when it was in the input, with the same value.
C20_OnlyTunedKeyChanges ==
    pc = "done" =>
        /\ (DOMAIN returned[1]) \ {NamedKey} = (DOMAIN env0) \ {NamedKey}
        /\ \A k \in (DOMAIN env0) \ {NamedKey} : returned[1][k] = env0[k]

\* the best candidate was applied to an input that had other keys
C20_Witness ==
    /\ pc = "done"
    /\ best_tuned_combination /= <<>>
    /\ (DOMAIN env0) \ {NamedKey} /= {}
    /\ TunedValue(returned[1]) /= TunedValue(env0)

(* the call has returned after a sweep with at most one attempt per
   candidate, each attempt ended in exactly one of success or failure *)
AttemptsAccounted ==
    /\ Len(attempted) <= Len(admissible_tensor_parallel_degrees)
    /\ Len(succeeded) + Len(failed) = Len(attempted)
    /\ \A i \in 1..Len(attempted) :
          attempted[i] = admissible_tensor_parallel_degrees[i]

(* the returned environment has the best candidate applied, or is the
   snapshot taken before the loop *)
BestAppliedOrSnapshotRestored ==
    IF best_tuned_combination /= <<>>
    THEN /\ Key \in DOMAIN env
         /\ env[Key] = Str(best_tuned_combination[2])
    ELSE env = initial_model_configuration[1]

(* a tuning call that entered its loop reaches its return *)
C21_Terminates == (pc = "loop") ~> (pc = "done")

(* at the return the attempts are accounted for *)
C21_AttemptsAccounted == TunedAndDone => AttemptsAccounted

\* C21: every tuning call terminates: a call that entered its loop reaches
\* its return, after at most one attempt per candidate, each ended in exactly
\* one of success or failure, with the best candidate applied or the
\* snapshot restored.
C21_TerminatesAppliedOrRestored ==
    /\ C21_Terminates
    /\ [](TunedAndDone => (AttemptsAccounted /\ BestAppliedOrSnapshotRestored))

(* an environment with OPTION_TENSOR_PARALLEL_DEGREE renamed to SM_NUM_GPUS:
   the entry is taken out and stored under the new name, replacing an
   SM_NUM_GPUS entry already there *)
Rename(e) ==
    IF "OPTION_TENSOR_PARALLEL_DEGREE" \notin DOMAIN e THEN e
    ELSE [k \in (DOMAIN e \ {"OPTION_TENSOR_PARALLEL_DEGREE"}) \cup {"SM_NUM_GPUS"} |->
             IF k = "SM_NUM_GPUS" THEN e["OPTION_TENSOR_PARALLEL_DEGREE"] ELSE e[k]]

(* the two calls are at the same position, attempted the same candidates and
   hold the same best-so-far record *)
SameProgress ==
    /\ runs["djl"].pc = runs["tgi"].pc
    /\ runs["djl"].idx = runs["tgi"].idx
    /\ runs["djl"].attempted = runs["tgi"].attempted
    /\ runs["djl"].best = runs["tgi"].best

(* both calls returned *)
BothReturned == runs["djl"].returned /= <<>> /\ runs["tgi"].returned /= <<>>

(* the configurations returned are equal once the DJL one is renamed *)
ReturnedEqualRenamed ==
    Rename(runs["djl"].returned[1]) = runs["tgi"].returned[1]

(* the calls ended in the fallback after an attempt that failed *)
FellBackAfterFailure ==
    runs["djl"].best = <<>> /\ runs["djl"].attempted /= <<>>

(* the environment both calls started on is one the renaming is faithful on *)
FaithfulInput ==
    /\ "OPTION_TENSOR_PARALLEL_DEGREE" \notin DOMAIN runs["djl"].input
    /\ "SM_NUM_GPUS" \in DOMAIN runs["djl"].input => ~FellBackAfterFailure

OverrideTo(m) ==
    /\ last_deploy /= <<>>
    /\ "mode" \in DOMAIN last_deploy[1].kwargs
    /\ last_deploy[1].kwargs["mode"] = m
    /\ last_deploy[1].before.mode /= m

(* the last deploy call returned a predictor *)
DeployCompleted == last_deploy /= <<>> /\ last_deploy[1].error = <<>>

(* a preparation attribute that holds no prepared resources *)
Unset(attribute) == attribute = <<>> \/ attribute = <<"None">>

\* C23: a deploy call overriding the mode to SAGEMAKER_ENDPOINT sets self.mode
\* and pysdk_model.mode to SAGEMAKER_ENDPOINT, merges the environment returned
\* by _prepare_for_mode into pysdk_model.env and calls the original deploy,
\* without failing inside the wrapper, also when both prepared_for_djl and
\* prepared_for_tgi exist on the builder.
C23_EndpointOverrideDelegates ==
    OverrideTo(SAGEMAKER_ENDPOINT) =>
        /\ mode = SAGEMAKER_ENDPOINT
        /\ pysdk_mode = SAGEMAKER_ENDPOINT
        /\ last_deploy[1].prepare_for_mode = 1
        /\ env = DictUpdate(last_deploy[1].before.env, last_deploy[1].prepared_env)
        /\ last_deploy[1].error = <<>>
        /\ Len(last_deploy[1].original) = 1

\* C24: a deploy call whose mode argument differs from the current mode and
\* is neither SAGEMAKER_ENDPOINT nor LOCAL_CONTAINER raises ValueError and
\* changes nothing, creates no server and does not call the original deploy;
\* a mode argument equal to the current mode triggers no override.
C24_UnsupportedModeRejected ==
    last_deploy /= <<>> =>
        LET d == last_deploy[1]
            unchanged == /\ mode = d.before.mode
                         /\ pysdk_mode = d.before.pysdk_mode
                         /\ env = d.before.env
                         /\ prepared_for_djl = d.before.djl
                         /\ prepared_for_tgi = d.before.tgi
        IN  /\ ("mode" \in DOMAIN d.kwargs
                  /\ d.kwargs["mode"] /= d.before.mode
                  /\ d.kwargs["mode"] \notin {SAGEMAKER_ENDPOINT, LOCAL_CONTAINER}) =>
                   /\ d.error = <<"ValueError">>
                   /\ unchanged
                   /\ d.servers = <<>>
                   /\ d.original = <<>>
            /\ ("mode" \in DOMAIN d.kwargs /\ d.kwargs["mode"] = d.before.mode) =>
                   /\ ~d.overridden
                   /\ unchanged
                   /\ d.prepared = <<>>
                   /\ d.prepare_for_mode = 0

\* a deploy call with mode IN_PROCESS, beside other arguments, was rejected
C24_Witness ==
    /\ OverrideTo(IN_PROCESS)
    /\ last_deploy[1].error = <<"ValueError">>
    /\ "role" \in DOMAIN last_deploy[1].kwargs
    /\ mode = LOCAL_CONTAINER

\* C25: each completed deploy is routed by the mode in force after the
\* override: in LOCAL_CONTAINER mode one local server is created with the
\* current pysdk_model.env and the original deploy is not called; otherwise
\* the original deploy is called once, without the mode and role arguments
\* and with endpoint_logging=True unless the caller supplied it. After every
\* successful override self.mode equals pysdk_model.mode.
C25_RoutedByModeInForce ==
    DeployCompleted =>
        LET d == last_deploy[1]
        IN  /\ IF mode = LOCAL_CONTAINER
               THEN d.servers = <<env>> /\ d.original = <<>>
               ELSE /\ d.servers = <<>>
                    /\ Len(d.original) = 1
                    /\ "mode" \notin DOMAIN d.original[1]
                    /\ "role" \notin DOMAIN d.original[1]
                    /\ "endpoint_logging" \in DOMAIN d.original[1]
                    /\ d.original[1]["endpoint_logging"] =
                          IF "endpoint_logging" \in DOMAIN d.kwargs
                          THEN d.kwargs["endpoint_logging"] ELSE "True"
            /\ d.overridden => mode = pysdk_mode

\* a deploy with mode and role arguments and no endpoint_logging was handed
\* to the original deploy
C25_Witness ==
    /\ DeployCompleted
    /\ mode = SAGEMAKER_ENDPOINT
    /\ {"mode", "role"} \subseteq DOMAIN last_deploy[1].kwargs
    /\ "endpoint_logging" \notin DOMAIN last_deploy[1].kwargs
    /\ Len(last_deploy[1].original) = 1

\* C26: on a deploy call overriding the mode to LOCAL_CONTAINER, DJL
\* resources are prepared when model_server is DJL_SERVING and
\* prepared_for_djl is unset, TGI resources when model_server is TGI and
\* prepared_for_tgi is unset, nothing otherwise; _prepare_for_mode is then
\* called exactly once and pysdk_model.env is left unchanged.
C26_PreparedForServerKind ==
    OverrideTo(LOCAL_CONTAINER) =>
        LET d == last_deploy[1]
        IN  /\ d.prepared =
                  IF model_server = DJL_SERVING /\ Unset(d.before.djl) THEN <<"djl">>
                  ELSE IF model_server = TGI /\ Unset(d.before.tgi) THEN <<"tgi">>
                  ELSE <<>>
            /\ d.prepare_for_mode = 1
            /\ env = d.before.env

\* C27: a successful build selected DJL_SERVING when the packaged image URI
\* contains "djl-inference", TGI when it does not and contains
\* "tgi-inference"; it set the model's tune operation to the tuner of that
\* server and secret_key to None; a build for any other image raised
\* ValueError and left pysdk_model and model_server unassigned.
C27_ServerFromImage ==
    /\ build_pc = "built" =>
          /\ pysdk_model = "JumpStartModel"
          /\ image_uri = packaged_image_uri
          /\ model_server =
                IF Contains(packaged_image_uri, "djl-inference") THEN DJL_SERVING
                ELSE TGI
          /\ model_server = TGI => Contains(packaged_image_uri, "tgi-inference")
          /\ tune = IF model_server = DJL_SERVING THEN "tune_for_djl_jumpstart"
                    ELSE "tune_for_tgi_jumpstart"
          /\ secret_key = "None"
    /\ build_pc = "failed" =>
          /\ ~Contains(packaged_image_uri, "djl-inference")
          /\ ~Contains(packaged_image_uri, "tgi-inference")
          /\ build_error = <<"ValueError">>
          /\ pysdk_model = "None"
          /\ model_server = "None"
          /\ tune = "None"

\* an image naming both containers was built for DJL_SERVING
C27_Witness ==
    /\ build_pc = "built"
    /\ Contains(packaged_image_uri, "djl-inference")
    /\ Contains(packaged_image_uri, "tgi-inference")
    /\ model_server = DJL_SERVING
    /\ tune = "tune_for_djl_jumpstart"

(* the constructor was called with a distribution that has pytorchddp and no
   smdistributed *)
NamesPytorchddpOnly ==
    /\ est_pc /= "new"
    /\ arg_distribution /= <<>>
    /\ "pytorchddp" \in DOMAIN arg_distribution[1]
    /\ "smdistributed" \notin DOMAIN arg_distribution[1]

(* self.distribution is the argument with pytorchddp turned into
   smdistributed.dataparallel and every other entry kept *)
RewrittenFromArgument ==
    LET given == arg_distribution[1]
        d == self_distribution[1]
    IN  /\ DOMAIN d = ((DOMAIN given) \ {"pytorchddp"}) \cup {"smdistributed"}
        /\ DOMAIN d["smdistributed"] = {"dataparallel"}
        /\ d["smdistributed"]["dataparallel"] = given["pytorchddp"]
        /\ \A k \in (DOMAIN given) \ {"pytorchddp"} : d[k] = given[k]

\* C28, as stated: a constructor that receives a distribution with pytorchddp
\* and without smdistributed leaves the caller's dict as it was and, when it
\* succeeds, holds the rewritten distribution: no pytorchddp,
\* smdistributed.dataparallel equal to the original pytorchddp value, all
\* other entries preserved.
C28_RewrittenOnCopy ==
    NamesPytorchddpOnly =>
        /\ caller_distribution = arg_distribution
        /\ est_pc = "constructed" => RewrittenFromArgument

\* C28, amended: the same for a constructor called without a training_recipe;
\* with a training_recipe the argument is ignored, the caller's dict is
\* still left as it was and a constructed estimator holds the distribution
\* of the recipe setup.
C28_RewrittenOnCopyWithoutRecipe ==
    NamesPytorchddpOnly =>
        /\ caller_distribution = arg_distribution
        /\ (est_pc = "constructed" /\ training_recipe = "None") =>
              RewrittenFromArgument
        /\ (est_pc = "constructed" /\ training_recipe /= "None") =>
              self_distribution = <<RecipeDistribution(DeviceType(instance_type))>>

\* a distribution with an enabled pytorchddp beside two other entries was
\* accepted and rewritten
C28_Witness ==
    /\ NamesPytorchddpOnly
    /\ training_recipe = "None"
    /\ est_pc = "constructed"
    /\ arg_distribution[1]["pytorchddp"] = EnabledOptions
    /\ {"torch_distributed", "mpi"} \subseteq DOMAIN arg_distribution[1]
    /\ "smdistributed" \in DOMAIN self_distribution[1]
    /\ "pytorchddp" \in DOMAIN caller_distribution[1]

====
